---- MODULE Spec2Model ----
(***************************************************************************)
(* A state-machine model of the AI UI refactoring front end               *)
(* (src/index.tsx): the InputForm orchestrator, its completion client     *)
(* getUIImprovementFromCode, the CodeMirror input editor, and the output  *)
(* panel (tabs and live preview).                                         *)
(*                                                                        *)
(* A step of the model is one browser event handled to the end: the       *)
(* handler's state updates, the re-render they cause and the effects of   *)
(* that render.  handleSubmit is two steps, split at its await.           *)
(***************************************************************************)
EXTENDS Integers, Sequences, FiniteSets, TLC

(***************************************************************************)
(* Bounds of the model.                                                   *)
(***************************************************************************)
\* longest text the user types into the code editor
MaxCodeLen == 2
\* most whitespace the backend puts before or after its reply text
MaxPad == 1
\* most install commands in a reply's dependency list
MaxDeps == 2
\* most copy timers outstanding at a time
MaxTimers == 2

(***************************************************************************)
(* JavaScript values.  A state variable of the form holds whatever the    *)
(* setter was given, so the values are tagged with their run-time type.   *)
(***************************************************************************)
Str(s) == [ty |-> "string", s |-> s]
Arr(a) == [ty |-> "array", a |-> a]
Undefined == [ty |-> "undefined"]
Null == [ty |-> "null"]

\* JavaScript truthiness, as used by !improvedCode, error, a || b
Truthy(v) ==
    /\ v # Undefined
    /\ v # Null
    /\ v # Str("")

(***************************************************************************)
(* Texts.  The user's code is a sequence of characters; the backend's     *)
(* reply text is a sequence of lexical tokens.                            *)
(***************************************************************************)
Chars == {" ", "a"}

IsSpace(c) == c = " "

\* the positions of s holding no white space
Inked(s) == {i \in 1..Len(s) : ~IsSpace(s[i])}

\* String.prototype.trim on the user's code
Trim(s) ==
    IF Inked(s) = {} THEN <<>>
    ELSE SubSeq(s, CHOOSE i \in Inked(s) : \A j \in Inked(s) : i <= j,
                   CHOOSE i \in Inked(s) : \A j \in Inked(s) : i >= j)

\* every text of at most n characters
TextsUpTo(n) == UNION {[1..k -> Chars] : k \in 0..n}

\* the example shown in the empty editor
PLACEHOLDER_CODE == <<"a", "a">>

(***************************************************************************)
(* Messages.                                                              *)
(***************************************************************************)
ValidationMessage == "Please provide some component code to refactor."
InvalidLanguageMessage == "AI returned an invalid language type."
InvalidResponseMessage ==
    "Received an invalid response from the AI. It might have been too complex to process."
FailedMessage ==
    "Failed to get UI improvement from code. The AI may have been unable to process the request."
UnexpectedMessage == "An unexpected error occurred."
SyntaxErrorMessage == "Unexpected token in JSON"

(***************************************************************************)
(* The backend's reply.  The reply text is a sequence of tokens: white    *)
(* space, the two braces, a fragment of prose, a fragment that is no      *)
(* JSON, and object members "key": literal.  A literal is the JSON text   *)
(* of a string or of an array of strings.                                 *)
(***************************************************************************)
WS == [t |-> "ws"]
LB == [t |-> "{"]
RB == [t |-> "}"]
PROSE == [t |-> "prose"]
GARBLED == [t |-> "garbled"]
Member(k, lit) == [t |-> "member", k |-> k, lit |-> lit]

StringLit(s) == [json |-> "string", s |-> s]
ArrayLit(items) == [json |-> "array", items |-> items]
\* what the backend leaves out of its reply
Absent == [json |-> "absent"]

\* the fields the response schema requires, in the schema's order
SchemaKeys == <<"language", "improvedCode", "explanation", "dependencies">>

\* the positions of a reply text holding no white space
InkedTokens(text) == {i \in 1..Len(text) : text[i] # WS}

\* response.text.trim()
TrimText(text) ==
    IF InkedTokens(text) = {} THEN <<>>
    ELSE SubSeq(text, CHOOSE i \in InkedTokens(text) : \A j \in InkedTokens(text) : i <= j,
                      CHOOSE i \in InkedTokens(text) : \A j \in InkedTokens(text) : i >= j)

\* jsonStr.startsWith('{') and jsonStr.endsWith('}')
StartsWithBrace(jsonStr) == jsonStr # <<>> /\ jsonStr[1] = LB
EndsWithBrace(jsonStr) == jsonStr # <<>> /\ jsonStr[Len(jsonStr)] = RB

\* the JavaScript value a JSON literal denotes
JsonValue(lit) ==
    IF lit.json = "string" THEN Str(lit.s) ELSE Arr(lit.items)

\* JSON.parse of a text that starts with { and ends with }: the object whose
\* properties are the members between the braces (of two members with one
\* key the later wins), or a SyntaxError when anything else stands there
JsonParse(jsonStr) ==
    LET inner == SubSeq(jsonStr, 2, Len(jsonStr) - 1)
        keys == {inner[i].k : i \in {j \in 1..Len(inner) : inner[j].t = "member"}}
        last(k) == CHOOSE i \in 1..Len(inner) :
                      /\ inner[i].t = "member" /\ inner[i].k = k
                      /\ \A j \in (i + 1)..Len(inner) :
                            ~(inner[j].t = "member" /\ inner[j].k = k)
    IN  IF \A i \in 1..Len(inner) : inner[i].t = "member"
        THEN [kind |-> "return", value |-> [k \in keys |-> JsonValue(inner[last(k)].lit)]]
        ELSE [kind |-> "throw", message |-> SyntaxErrorMessage]

\* reading a property of a parsed object
Get(obj, k) == IF k \in DOMAIN obj THEN obj[k] ELSE Undefined

\* a language check that only asks for a language to be there
InvalidLanguage_OnlyMissing(result) == Get(result, "language") = Undefined

\* result.language !== 'tsx' && result.language !== 'html'
InvalidLanguage(result) ==
    Get(result, "language") # Str("tsx") /\ Get(result, "language") # Str("html")

\* the body of getUIImprovementFromCode's try block after the await: what
\* it returns or throws for a resolved or rejected completion call
TryBody(response) ==
    IF response.kind = "reject"
    THEN [kind |-> "throw", message |-> response.cause]
    ELSE LET jsonStr == TrimText(response.text)
         IN  IF StartsWithBrace(jsonStr) /\ EndsWithBrace(jsonStr)
             THEN LET parsed == JsonParse(jsonStr)
                  IN  IF parsed.kind = "throw" THEN parsed
                      ELSE IF InvalidLanguage(parsed.value)
                           THEN [kind |-> "throw", message |-> InvalidLanguageMessage]
                           ELSE parsed
             ELSE [kind |-> "throw", message |-> InvalidResponseMessage]

\* a catch clause that lets the error it caught through
CatchAndRethrow_Passthrough(thrown) == thrown

\* the catch clause of getUIImprovementFromCode: whatever was thrown inside
\* the try block, the error thrown to the caller
CatchAndRethrow(thrown) == [kind |-> "throw", message |-> FailedMessage]

\* getUIImprovementFromCode from the settlement of its call on
getUIImprovementFromCode(response) ==
    IF TryBody(response).kind = "throw"
    THEN CatchAndRethrow(TryBody(response))
    ELSE TryBody(response)

(***************************************************************************)
(* State.                                                                 *)
(***************************************************************************)
VARIABLES
    \* InputForm's state
    userCode, refactorPrompt, stylePrompt,
    improvedCode, explanation, language, dependencies,
    isLoading, error,
    \* the CodeMirror instance of the code input: its text, and whether it has the focus
    cmValue, cmFocused,
    \* useTheme's state
    theme,
    \* OutputDisplay's and LivePreview's state
    activeTab, viewport, isFullScreen,
    \* the completion calls that have not settled yet, oldest first
    pendingCalls,
    \* the completion calls issued so far less the submits that passed the guard
    callsMinusSubmits,
    \* the last step, when it was a step of handleSubmit
    lastEvent,
    \* LivePreview's useMemo cell, and the iframe element it renders with
    \* what the frame's own document shows
    iframeContent, frame,
    \* the value the client returned for the request that settled last, while
    \* no newer request has been sent
    lastAccepted,
    \* the bundle composed for the last request, while the three inputs are
    \* what they were then
    lastComposed,
    \* the React root: not mounted yet, mounted, or unmounted by an error
    \* thrown in a render
    page,
    \* localStorage's 'theme' item
    storedTheme,
    \* the mounted CodeBlock's or DependenciesView's copied flag, and the
    \* number of its setTimeout callbacks that have not fired yet
    copied, copyTimers

(***************************************************************************)
(* The prompt composer: the template of getUIImprovementFromCode, as the  *)
(* sequence of its fixed and interpolated parts.                          *)
(***************************************************************************)
NoRequestPlaceholder ==
    "No specific request provided. Focus on general UI/UX improvements."
NoStylePlaceholder ==
    "No specific style provided. Use your best judgment for a modern, clean design."

\* the line of three backquotes that opens and closes the code block
Fence == "<fence>"

\* an || that always takes its right-hand side
OrElse_AlwaysFallback(a, b) == b

\* a || b on strings
OrElse(a, b) == IF a # "" THEN a ELSE b

\* a template that also interpolates the language held from the last reply
FullPrompt_WithHeldLanguage(code, refactor, style) ==
    << "The user has provided a frontend component. ...",
       "**User's Original Code:**", Fence, code, Fence, "---",
       "**User's Refactor Request:**", OrElse(refactor, NoRequestPlaceholder),
       "**User's Target Style:**", OrElse(style, NoStylePlaceholder), "---",
       "Based on all of the above, please identify the language, ...", language >>

FullPrompt(code, refactor, style) ==
    << "The user has provided a frontend component. ...",
       "**User's Original Code:**", Fence, code, Fence, "---",
       "**User's Refactor Request:**", OrElse(refactor, NoRequestPlaceholder),
       "**User's Target Style:**", OrElse(style, NoStylePlaceholder), "---",
       "Based on all of the above, please identify the language, ..." >>

(***************************************************************************)
(* The backend, as the client sees it: the completion call is either      *)
(* rejected with a cause, or resolved with a text.  The texts the model   *)
(* draws from are built from the fields the backend means to send and     *)
(* the shape it gives the text.                                           *)
(***************************************************************************)
\* install commands, in the order the backend lists them
DepCatalogue ==
    << "npm install framer-motion", "npm install clsx",
       "npm install lucide-react", "npm install zod" >>

DepLines == {DepCatalogue[i] : i \in 1..Len(DepCatalogue)}

\* the lists the backend sends: none, one command, the first MaxDeps commands
DepLists == {SubSeq(DepCatalogue, 1, n) : n \in {0, 1, MaxDeps}}

\* what the backend may put in each field, or leave out
FieldChoices ==
    [language : {StringLit("tsx"), StringLit("html"), StringLit("py"), Absent},
     improvedCode : {StringLit("<button class=\"p-2\">Click</button>"), StringLit(""), Absent},
     explanation : {StringLit("Improved spacing."), Absent},
     dependencies : {ArrayLit(d) : d \in DepLists} \cup {Absent}]

\* the fields a reply lacks
Missing(fields) == {i \in 1..Len(SchemaKeys) : fields[SchemaKeys[i]] = Absent}

\* the fields of a reply that has all four
CompleteFields == {f \in FieldChoices : Missing(f) = {}}

\* the fields of a reply that lacks one of the four
IncompleteFields == {f \in FieldChoices : Cardinality(Missing(f)) = 1}

\* the members of the object, in the schema's order
MembersOf(fields) ==
    LET m(k) == IF fields[k] = Absent THEN <<>> ELSE <<Member(k, fields[k])>>
    IN  m("language") \o m("improvedCode") \o m("explanation") \o m("dependencies")

Pad(n) == [i \in 1..n |-> WS]

\* one JSON object, bare or with white space before it, after it or both
ObjectShapes == [shape : {"object"}, lead : {0, MaxPad}, trail : {0, MaxPad}]

\* one bare JSON object
BareObject == [shape |-> "object", lead |-> 0, trail |-> 0]

\* texts that are not one JSON object
BrokenShapes ==
    [shape : {"leadingProse", "trailingProse", "truncated", "unopened", "garbled", "twoObjects"},
     lead : {0}, trail : {0}]

ShapedText(shape, members) ==
    CASE shape = "object" -> <<LB>> \o members \o <<RB>>
      [] shape = "leadingProse" -> <<PROSE, LB>> \o members \o <<RB>>
      [] shape = "trailingProse" -> <<LB>> \o members \o <<RB, PROSE>>
      [] shape = "truncated" -> <<LB>> \o members
      [] shape = "unopened" -> members \o <<RB>>
      [] shape = "garbled" -> <<LB>> \o members \o <<GARBLED, RB>>
      [] shape = "twoObjects" -> <<LB>> \o members \o <<RB, LB, RB>>

\* the text of a reply
ResponseText(fields, env) ==
    Pad(env.lead) \o ShapedText(env.shape, MembersOf(fields)) \o Pad(env.trail)

Causes == {"deadline exceeded", "quota exceeded"}

\* the fields in the texts that are padded with white space: the language
\* varies
PaddedFields ==
    {f \in CompleteFields : f.dependencies = ArrayLit(SubSeq(DepCatalogue, 1, 1))
                               /\ f.improvedCode # StringLit("")}

\* the fields in the texts that are not one JSON object: the language varies
BrokenFields ==
    {f \in CompleteFields : f.dependencies = ArrayLit(<<>>) /\ f.improvedCode # StringLit("")}

\* the ways the completion call settles
Settlements ==
    [kind : {"text"}, fields : CompleteFields, env : {BareObject}]
    \cup [kind : {"text"}, fields : PaddedFields, env : ObjectShapes]
    \cup [kind : {"text"}, fields : IncompleteFields, env : {BareObject}]
    \cup [kind : {"text"}, fields : BrokenFields, env : BrokenShapes]
    \cup [kind : {"reject"}, cause : Causes]

\* the settled call, as getUIImprovementFromCode's await sees it
ResponseOf(settlement) ==
    IF settlement.kind = "reject" THEN settlement
    ELSE [kind |-> "text", text |-> ResponseText(settlement.fields, settlement.env)]

vars == <<userCode, refactorPrompt, stylePrompt, improvedCode, explanation, language,
          dependencies, isLoading, error, cmValue, cmFocused, theme, activeTab,
          viewport, isFullScreen, pendingCalls, callsMinusSubmits, lastEvent,
          iframeContent, frame, lastAccepted, lastComposed,
          page, storedTheme, copied, copyTimers>>

inputVars == <<userCode, refactorPrompt, stylePrompt>>
resultVars == <<improvedCode, explanation, language, dependencies>>
requestVars == <<isLoading, error>>
editorVars == <<cmValue, cmFocused>>
previewVars == <<viewport, isFullScreen>>
netVars == <<pendingCalls, callsMinusSubmits>>
frameVars == <<iframeContent, frame>>
ghostVars == <<lastAccepted, lastComposed>>
pageVars == <<page, storedTheme>>
copyVars == <<copied, copyTimers>>

Prompts == {"", "more contrast"}
Styles == {"", "minimal"}
Tabs == {"preview", "code", "explanation", "dependencies"}
Viewports == {"desktop", "tablet", "mobile"}

NoEvent == [op |-> "none"]
NoMemo == [deps |-> <<>>]
NoFrame == [sandbox |-> {}]
NoValue == [kind |-> "none"]
NoBundle == <<>>
NoStored == "null"
Themes == {"light", "dark"}

Init ==
    /\ userCode = <<>>
    /\ refactorPrompt = ""
    /\ stylePrompt = ""
    /\ improvedCode = Str("")
    /\ explanation = Str("")
    /\ language = Str("tsx")
    /\ dependencies = Arr(<<>>)
    /\ isLoading = FALSE
    /\ error = Null
    /\ cmValue = <<>>
    /\ cmFocused = FALSE
    /\ theme = "dark"
    /\ activeTab = "preview"
    /\ viewport = "desktop"
    /\ isFullScreen = FALSE
    /\ pendingCalls = <<>>
    /\ callsMinusSubmits = 0
    /\ lastEvent = NoEvent
    /\ iframeContent = NoMemo
    /\ frame = NoFrame
    /\ lastAccepted = NoValue
    /\ lastComposed = NoBundle
    /\ page = "unmounted"
    /\ storedTheme \in Themes \cup {NoStored}
    /\ copied = FALSE
    /\ copyTimers = 0

(***************************************************************************)
(* The output panel.                                                      *)
(***************************************************************************)
\* the tab bar is rendered
TabBarShown(loading, err, code) == Truthy(code) /\ ~Truthy(err) /\ ~loading

\* renderContent reaches LivePreview
PreviewMounted(loading, err, code, tab) ==
    ~loading /\ ~Truthy(err) /\ Truthy(code) /\ tab = "preview"

\* OutputDisplay's effect on [improvedCode, error], run after a render in
\* which one of the two changed: the tab that is active afterwards
ActiveTabEffect(oldCode, oldErr, newCode, newErr, tab) ==
    IF (newCode # oldCode \/ newErr # oldErr) /\ Truthy(newCode) /\ ~Truthy(newErr)
    THEN "preview"
    ELSE tab

(***************************************************************************)
(* The preview (LivePreview): the document it builds, as the parts the    *)
(* template puts together, and the frame it hands the document to.        *)
(***************************************************************************)
TailwindCdn == "https://cdn.tailwindcss.com"
ReactCdn == "https://unpkg.com/react@18/umd/react.development.js"
ReactDomCdn == "https://unpkg.com/react-dom@18/umd/react-dom.development.js"
BabelCdn == "https://unpkg.com/@babel/standalone/babel.min.js"
TailwindConfig == "tailwind.config = { darkMode: 'class' }"

NotFoundText == "Error: RefactoredComponent function not found in the generated code."
ScriptErrorText == "Script Error:"

\* a document that takes the component path whatever the language
IframeDocument_AlwaysComponent(code, lang, thm) ==
    [htmlClass |-> IF thm = "dark" THEN "class=\"dark\"" ELSE "",
     scripts |-> <<TailwindCdn, ReactCdn, ReactDomCdn, BabelCdn>>,
     inline |-> <<TailwindConfig>>,
     style |-> [centered |-> TRUE,
                bodyBg |-> IF thm = "dark" THEN "#0f172a" ELSE "#ffffff",
                textColor |-> IF thm = "dark" THEN "#cbd5e1" ELSE "#334155"],
     body |-> << [tag |-> "div", type |-> "root", code |-> Str(""), guard |-> "", onMissing |-> "", onThrow |-> ""],
                 [tag |-> "script", type |-> "text/babel", code |-> code,
                  guard |-> "typeof RefactoredComponent !== 'undefined'",
                  onMissing |-> NotFoundText, onThrow |-> ScriptErrorText] >>]

\* the template of iframeContent
IframeDocument(code, lang, thm) ==
    LET htmlClass == IF thm = "dark" THEN "class=\"dark\"" ELSE ""
        bodyBg == IF thm = "dark" THEN "#0f172a" ELSE "#ffffff"
        textColor == IF thm = "dark" THEN "#cbd5e1" ELSE "#334155"
    IN  IF lang = Str("tsx")
        THEN [htmlClass |-> htmlClass,
              scripts |-> <<TailwindCdn, ReactCdn, ReactDomCdn, BabelCdn>>,
              inline |-> <<TailwindConfig>>,
              style |-> [centered |-> TRUE, bodyBg |-> bodyBg, textColor |-> textColor],
              body |-> << [tag |-> "div", type |-> "root", code |-> Str(""), guard |-> "", onMissing |-> "", onThrow |-> ""],
                          [tag |-> "script", type |-> "text/babel", code |-> code,
                           guard |-> "typeof RefactoredComponent !== 'undefined'",
                           onMissing |-> NotFoundText, onThrow |-> ScriptErrorText] >>]
        ELSE [htmlClass |-> htmlClass,
              scripts |-> <<TailwindCdn>>,
              inline |-> <<TailwindConfig>>,
              style |-> [centered |-> FALSE, bodyBg |-> bodyBg, textColor |-> textColor],
              body |-> << [tag |-> "markup", type |-> "", code |-> code, guard |-> "", onMissing |-> "", onThrow |-> ""] >>]

\* a dependency list that leaves the theme out
MemoDeps_NoTheme(code, lang, thm) == <<code, lang>>

\* useMemo's dependency list
MemoDeps(code, lang, thm) == <<code, lang, thm>>

\* useMemo: the cell after a render, given the cell before it
UseMemo(prev, deps, fresh) ==
    IF prev # NoMemo /\ prev.deps = deps THEN prev ELSE [deps |-> deps, value |-> fresh]

\* an iframe that is also given same-origin access
previewIframe_SameOrigin(srcDoc) ==
    [title |-> "Live Preview", sandbox |-> {"allow-scripts", "allow-same-origin"}, srcDoc |-> srcDoc]

\* the iframe element
previewIframe(srcDoc) ==
    [title |-> "Live Preview", sandbox |-> {"allow-scripts"}, srcDoc |-> srcDoc]

viewportClasses == [desktop |-> "w-full", tablet |-> "w-[768px]", mobile |-> "w-[375px]"]

\* what LivePreview returns: the full-screen overlay or the normal view, each
\* around the iframe element
LivePreviewTree(full, vp, el) ==
    IF full
    THEN [view |-> "overlay", width |-> "w-full", buttons |-> {"exit"}, iframe |-> el]
    ELSE [view |-> "normal", width |-> viewportClasses[vp],
          buttons |-> {"desktop", "tablet", "mobile", "fullscreen"}, iframe |-> el]

\* LivePreview's render: the memo cell and the frame afterwards.  The frame
\* loads its document anew when the element is a new one (a mount, or the
\* move between the normal view and the overlay) or its srcDoc changed.
RenderPreview(was, now, code, lang, thm, full, vp) ==
    LET prev == IF was THEN iframeContent ELSE NoMemo
        memo == UseMemo(prev, MemoDeps(code, lang, thm), IframeDocument(code, lang, thm))
        el == LivePreviewTree(full, vp, previewIframe(memo.value)).iframe
        same == was /\ full = isFullScreen /\ frame.srcDoc = el.srcDoc
    IN  /\ iframeContent' = IF now THEN memo ELSE NoMemo
        /\ frame' = IF ~now THEN NoFrame
                    ELSE [sandbox |-> el.sandbox, srcDoc |-> el.srcDoc,
                          root |-> IF same THEN frame.root ELSE "loading",
                          ran |-> IF same THEN frame.ran ELSE "none"]

\* renderContent reaches a view with a copy button: CodeBlock, or
\* DependenciesView past its early return
CopyViewMounted(loading, err, code, deps, tab) ==
    /\ ~loading /\ ~Truthy(err) /\ Truthy(code)
    /\ \/ tab = "code"
       \/ tab = "dependencies" /\ Truthy(deps) /\ deps.ty = "array" /\ deps.a # <<>>

\* the copied flag and the timers of the view with the copy button after a
\* render: kept while the same view stays mounted, gone with the view
RenderCopyView(was, now) ==
    /\ copied' = IF was /\ now THEN copied ELSE FALSE
    /\ copyTimers' = IF was /\ now THEN copyTimers ELSE 0

\* a render of OutputDisplay throws: the tab bar reads dependencies.length,
\* MarkdownRenderer calls content.replace
RenderThrows(loading, err, code, deps, expl, tab) ==
    /\ TabBarShown(loading, err, code)
    /\ \/ deps \in {Undefined, Null}
       \/ tab = "explanation" /\ expl \in {Undefined, Null}

\* LivePreview's state after a render: it starts afresh when the render
\* before did not have the preview mounted, and is gone when this one has not
RenderOutput(newLoading, newErr, newCode, newLang, newDeps) ==
    LET tab == ActiveTabEffect(improvedCode, error, newCode, newErr, activeTab)
        was == PreviewMounted(isLoading, error, improvedCode, activeTab)
        now == PreviewMounted(newLoading, newErr, newCode, tab)
        vp == IF was /\ now THEN viewport ELSE "desktop"
        full == IF was /\ now THEN isFullScreen ELSE FALSE
    IN  /\ activeTab' = tab
        /\ viewport' = vp
        /\ isFullScreen' = full
        /\ RenderPreview(was, now, newCode, newLang, theme, full, vp)
        /\ RenderCopyView(
              CopyViewMounted(isLoading, error, improvedCode, dependencies, activeTab),
              tab = activeTab /\ CopyViewMounted(newLoading, newErr, newCode, newDeps, tab))

\* what the generated code does in the frame: it defines RefactoredComponent,
\* it runs without defining it, it throws while it is evaluated, or Babel
\* cannot compile the script block, which then never runs
FrameBehaviours == {"defines", "omits", "throws", "unparsable"}

\* a script block with no check that RefactoredComponent exists: rendering
\* the missing identifier throws, and the catch shows the script error
RunDocument_Unguarded(doc, behaviour) ==
    IF Len(doc.body) = 1 THEN [sink |-> "frame", shows |-> "markup"]
    ELSE CASE behaviour = "defines" -> [sink |-> "frame", shows |-> "component"]
           [] behaviour = "omits" -> [sink |-> "frame", shows |-> doc.body[2].onThrow]
           [] behaviour = "throws" -> [sink |-> "frame", shows |-> doc.body[2].onThrow]
           [] behaviour = "unparsable" -> [sink |-> "frame", shows |-> "empty"]

\* a script block whose catch hands the error to the host page
RunDocument_ReportsToHost(doc, behaviour) ==
    IF Len(doc.body) = 1 THEN [sink |-> "frame", shows |-> "markup"]
    ELSE CASE behaviour = "defines" -> [sink |-> "frame", shows |-> "component"]
           [] behaviour = "omits" -> [sink |-> "frame", shows |-> doc.body[2].onMissing]
           [] behaviour = "throws" -> [sink |-> "host", shows |-> doc.body[2].onThrow]
           [] behaviour = "unparsable" -> [sink |-> "frame", shows |-> "empty"]

\* the document loaded in the frame: what it writes, and where
RunDocument(doc, behaviour) ==
    IF Len(doc.body) = 1 THEN [sink |-> "frame", shows |-> "markup"]
    ELSE CASE behaviour = "defines" -> [sink |-> "frame", shows |-> "component"]
           [] behaviour = "omits" -> [sink |-> "frame", shows |-> doc.body[2].onMissing]
           [] behaviour = "throws" -> [sink |-> "frame", shows |-> doc.body[2].onThrow]
           [] behaviour = "unparsable" -> [sink |-> "frame", shows |-> "empty"]

\* the frame has loaded its document and run its scripts
FrameLoad(behaviour) ==
    /\ page = "mounted"
    /\ frame # NoFrame
    /\ frame.root = "loading"
    /\ Len(frame.srcDoc.body) = 1 => behaviour = "defines"
    /\ LET run == RunDocument(frame.srcDoc, behaviour)
       IN  /\ frame' = [frame EXCEPT !.root = IF run.sink = "frame" THEN run.shows ELSE "blank",
                                     !.ran = behaviour]
           /\ error' = IF run.sink = "host" THEN Str(run.shows) ELSE error
    /\ lastEvent' = NoEvent
    /\ UNCHANGED <<inputVars, resultVars, isLoading, editorVars, theme, activeTab,
                   previewVars, netVars, iframeContent, ghostVars, pageVars, copyVars>>

(***************************************************************************)
(* The code input (useCodeMirror).                                        *)
(***************************************************************************)
\* a 'change' handler without the else branch: the placeholder is not
\* reported, and the form keeps the code it had
ChangedValue_SkipsPlaceholder(current) ==
    IF current # PLACEHOLDER_CODE THEN current ELSE userCode

\* the 'change' handler: what it passes to onChange for the editor's text
ChangedValue(current) == IF current # PLACEHOLDER_CODE THEN current ELSE <<>>

\* the effect on [value, placeholder]: the editor's text after it ran
ValueEffect(cm, value) ==
    IF cm # value
    THEN IF value = <<>> /\ PLACEHOLDER_CODE # <<>> THEN PLACEHOLDER_CODE ELSE value
    ELSE cm

\* The editor's text becomes v (an edit, or cm.setValue(v)): 'change' fires and
\* calls setUserCode; when userCode changed, the render's value effect runs,
\* and its own setValue fires 'change' once more.
EditorChange(v) ==
    LET first == ChangedValue(v)
        rerender == first # userCode
        shown == IF rerender THEN ValueEffect(v, first) ELSE v
        second == IF rerender /\ v # first THEN ChangedValue(shown) ELSE first
    IN  /\ cmValue' = shown
        /\ userCode' = second
        /\ lastComposed' = IF second # userCode THEN NoBundle ELSE lastComposed

\* the editor is read-only while a request is pending
TypeCode(v) ==
    /\ page = "mounted"
    /\ cmFocused
    /\ ~isLoading
    /\ v # cmValue
    /\ EditorChange(v)
    /\ lastEvent' = NoEvent
    /\ UNCHANGED <<refactorPrompt, stylePrompt, resultVars, requestVars, cmFocused,
                   theme, activeTab, previewVars, netVars, frameVars, lastAccepted,
                   pageVars, copyVars>>

\* the 'focus' handler
FocusEditor ==
    /\ page = "mounted"
    /\ ~cmFocused
    /\ cmFocused' = TRUE
    /\ IF cmValue = PLACEHOLDER_CODE
       THEN EditorChange(<<>>)
       ELSE UNCHANGED <<cmValue, userCode, lastComposed>>
    /\ lastEvent' = NoEvent
    /\ UNCHANGED <<refactorPrompt, stylePrompt, resultVars, requestVars,
                   theme, activeTab, previewVars, netVars, frameVars, lastAccepted,
                   pageVars, copyVars>>

\* the 'blur' handler
BlurEditor ==
    /\ page = "mounted"
    /\ cmFocused
    /\ cmFocused' = FALSE
    /\ IF Trim(cmValue) = <<>>
       THEN EditorChange(PLACEHOLDER_CODE)
       ELSE UNCHANGED <<cmValue, userCode, lastComposed>>
    /\ lastEvent' = NoEvent
    /\ UNCHANGED <<refactorPrompt, stylePrompt, resultVars, requestVars,
                   theme, activeTab, previewVars, netVars, frameVars, lastAccepted,
                   pageVars, copyVars>>

(***************************************************************************)
(* The two prompt inputs (PromptInput), disabled while a request is       *)
(* pending.                                                               *)
(***************************************************************************)
SetRefactorPrompt(p) ==
    /\ page = "mounted"
    /\ ~isLoading
    /\ p # refactorPrompt
    /\ refactorPrompt' = p
    /\ lastEvent' = NoEvent
    /\ lastComposed' = NoBundle
    /\ UNCHANGED <<userCode, stylePrompt, resultVars, requestVars, editorVars,
                   theme, activeTab, previewVars, netVars, frameVars, lastAccepted,
                   pageVars, copyVars>>

SetStylePrompt(p) ==
    /\ page = "mounted"
    /\ ~isLoading
    /\ p # stylePrompt
    /\ stylePrompt' = p
    /\ lastEvent' = NoEvent
    /\ lastComposed' = NoBundle
    /\ UNCHANGED <<userCode, refactorPrompt, resultVars, requestVars, editorVars,
                   theme, activeTab, previewVars, netVars, frameVars, lastAccepted,
                   pageVars, copyVars>>

(***************************************************************************)
(* The orchestrator (InputForm.handleSubmit).                             *)
(***************************************************************************)
\* a submit button that stays enabled while a request is pending
SubmitDisabled_IgnoresLoading(code, loading) == code = <<>>

\* the submit button's disabled attribute
SubmitDisabled(code, loading) == code = <<>> \/ loading

\* a guard that does not trim
IsBlank_Untrimmed(code) == code = <<>>

\* handleSubmit's guard, !userCode.trim()
IsBlank(code) == Trim(code) = <<>>

\* an entry into Pending that forgets setIsLoading(true)
PendingEntry_NotLoading ==
    [isLoading |-> FALSE, error |-> Null, improvedCode |-> Str(""),
     explanation |-> Str(""), dependencies |-> Arr(<<>>)]

\* what handleSubmit sets before it calls the client
PendingEntry ==
    [isLoading |-> TRUE, error |-> Null, improvedCode |-> Str(""),
     explanation |-> Str(""), dependencies |-> Arr(<<>>)]

\* a client that issues the call a second time
GenerateContent_Twice(calls, contents) ==
    Append(Append(calls, [contents |-> contents]), [contents |-> contents])

\* ai.models.generateContent: the calls outstanding after one is issued
GenerateContent(calls, contents) == Append(calls, [contents |-> contents])

\* a success branch that mixes up the code and the explanation
AcceptedResult_Swapped(value) ==
    [improvedCode |-> Get(value, "explanation"),
     explanation |-> Get(value, "improvedCode"),
     language |-> Get(value, "language"),
     dependencies |-> Get(value, "dependencies")]

\* a success branch that forgets setLanguage
AcceptedResult_KeepsLanguage(value) ==
    [improvedCode |-> Get(value, "improvedCode"),
     explanation |-> Get(value, "explanation"),
     language |-> language,
     dependencies |-> Get(value, "dependencies")]

\* what handleSubmit sets from the value the client returned
AcceptedResult(value) ==
    [improvedCode |-> Get(value, "improvedCode"),
     explanation |-> Get(value, "explanation"),
     language |-> Get(value, "language"),
     dependencies |-> Get(value, "dependencies")]

\* what handleSubmit's catch sets from the message of the error thrown
CaughtError(message) == Str(OrElse(message, UnexpectedMessage))

\* a click on the submit button: handleSubmit up to its await
HandleSubmit ==
    /\ page = "mounted"
    /\ ~SubmitDisabled(userCode, isLoading)
    /\ IF IsBlank(userCode)
       THEN /\ error' = Str(ValidationMessage)
            /\ RenderOutput(isLoading, Str(ValidationMessage), improvedCode, language,
                            dependencies)
            /\ lastEvent' = [op |-> "handleSubmit", was |-> isLoading, again |-> FALSE]
            /\ UNCHANGED <<isLoading, resultVars, netVars, ghostVars>>
       ELSE /\ isLoading' = PendingEntry.isLoading
            /\ error' = PendingEntry.error
            /\ improvedCode' = PendingEntry.improvedCode
            /\ explanation' = PendingEntry.explanation
            /\ dependencies' = PendingEntry.dependencies
            /\ pendingCalls' =
                  GenerateContent(pendingCalls, FullPrompt(userCode, refactorPrompt, stylePrompt))
            /\ callsMinusSubmits' =
                  callsMinusSubmits + (Len(pendingCalls') - Len(pendingCalls)) - 1
            /\ RenderOutput(PendingEntry.isLoading, PendingEntry.error,
                            PendingEntry.improvedCode, language, PendingEntry.dependencies)
            /\ lastEvent' = [op |-> "handleSubmit", was |-> isLoading,
                             again |-> lastComposed # NoBundle]
            /\ lastAccepted' = NoValue
            /\ lastComposed' = pendingCalls'[Len(pendingCalls')].contents
            /\ UNCHANGED language
    /\ UNCHANGED <<inputVars, editorVars, theme, pageVars>>

\* an error thrown while rendering, with no error boundary above it: React
\* unmounts the whole root, and the preview and the copy views go with it
Unmounted ==
    /\ page' = "crashed"
    /\ iframeContent' = NoMemo
    /\ frame' = NoFrame
    /\ copied' = FALSE
    /\ copyTimers' = 0
    /\ UNCHANGED <<activeTab, previewVars>>

\* the removal of the i-th element
RemoveAt(q, i) == SubSeq(q, 1, i - 1) \o SubSeq(q, i + 1, Len(q))

\* the i-th outstanding call settles: the rest of getUIImprovementFromCode,
\* then handleSubmit from its await on (try, catch, finally)
Settle(i, settlement) ==
    LET outcome == getUIImprovementFromCode(ResponseOf(settlement))
        newError == IF outcome.kind = "return" THEN error ELSE CaughtError(outcome.message)
        newCode == IF outcome.kind = "return"
                   THEN AcceptedResult(outcome.value).improvedCode
                   ELSE improvedCode
        newLang == IF outcome.kind = "return"
                   THEN AcceptedResult(outcome.value).language
                   ELSE language
        newDeps == IF outcome.kind = "return"
                   THEN AcceptedResult(outcome.value).dependencies
                   ELSE dependencies
        newExpl == IF outcome.kind = "return"
                   THEN AcceptedResult(outcome.value).explanation
                   ELSE explanation
    IN  /\ page = "mounted"
        /\ i \in 1..Len(pendingCalls)
        /\ pendingCalls' = RemoveAt(pendingCalls, i)
        /\ IF outcome.kind = "return"
           THEN /\ improvedCode' = newCode
                /\ explanation' = newExpl
                /\ language' = newLang
                /\ dependencies' = newDeps
                /\ lastAccepted' = outcome.value
           ELSE UNCHANGED <<resultVars, lastAccepted>>
        /\ error' = newError
        /\ isLoading' = FALSE
        /\ IF RenderThrows(FALSE, newError, newCode, newDeps, newExpl, activeTab)
           THEN Unmounted
           ELSE /\ RenderOutput(FALSE, newError, newCode, newLang, newDeps)
                /\ page' = page
        /\ lastEvent' = [op |-> "settle", settlement |-> settlement]
        /\ UNCHANGED <<inputVars, editorVars, theme, callsMinusSubmits, lastComposed,
                       storedTheme>>

(***************************************************************************)
(* The rest of the page.                                                  *)
(***************************************************************************)
\* useTheme's first effect: the theme it hands to setTheme
InitEffect(stored, prefersDark) ==
    IF stored # NoStored THEN stored ELSE IF prefersDark THEN "dark" ELSE "light"

\* useTheme's second effect: what it leaves in localStorage under 'theme'
PersistEffect(thm) == thm

\* one run of the two mount effects, in the order of their declaration,
\* with the theme of the committed render: setTheme is queued, not applied
EffectPass(s, prefersDark) ==
    [queue |-> Append(s.queue, InitEffect(s.stored, prefersDark)),
     stored |-> PersistEffect(s.theme),
     theme |-> s.theme]

\* root.render: the first render with useState's 'dark', the mount effects
\* (run a second time under StrictMode in a development build), then the
\* queued setTheme calls, and the second effect again when the theme changed.
\* The editor is created with value || placeholder.
Mount(prefersDark, strict) ==
    LET s0 == [queue |-> <<>>, stored |-> storedTheme, theme |-> theme]
        s1 == EffectPass(s0, prefersDark)
        s2 == IF strict THEN EffectPass(s1, prefersDark) ELSE s1
        newTheme == s2.queue[Len(s2.queue)]
    IN  /\ page = "unmounted"
        /\ page' = "mounted"
        /\ theme' = newTheme
        /\ storedTheme' = IF newTheme # s2.theme THEN PersistEffect(newTheme) ELSE s2.stored
        /\ cmValue' = IF userCode = <<>> THEN PLACEHOLDER_CODE ELSE userCode
        /\ lastEvent' = [op |-> "mount", stored |-> storedTheme,
                         prefersDark |-> prefersDark, strict |-> strict]
        /\ UNCHANGED <<inputVars, resultVars, requestVars, cmFocused, activeTab,
                       previewVars, netVars, frameVars, ghostVars, copyVars>>

\* useTheme.toggleTheme
ToggleTheme ==
    LET shown == PreviewMounted(isLoading, error, improvedCode, activeTab)
    IN  /\ page = "mounted"
        /\ theme' = IF theme = "light" THEN "dark" ELSE "light"
        /\ storedTheme' = PersistEffect(theme')
        /\ RenderPreview(shown, shown, improvedCode, language, theme', isFullScreen, viewport)
        /\ lastEvent' = NoEvent
        /\ UNCHANGED <<inputVars, resultVars, requestVars, editorVars, activeTab,
                       previewVars, netVars, ghostVars, page, copyVars>>

\* a click on a tab of the tab bar
SetActiveTab(tab) ==
    /\ page = "mounted"
    /\ TabBarShown(isLoading, error, improvedCode)
    /\ tab # activeTab
    /\ IF RenderThrows(isLoading, error, improvedCode, dependencies, explanation, tab)
       THEN Unmounted
       ELSE /\ activeTab' = tab
            /\ viewport' = "desktop"
            /\ isFullScreen' = FALSE
            /\ RenderPreview(PreviewMounted(isLoading, error, improvedCode, activeTab),
                             PreviewMounted(isLoading, error, improvedCode, tab),
                             improvedCode, language, theme, FALSE, "desktop")
            /\ RenderCopyView(FALSE, FALSE)
            /\ page' = page
    /\ lastEvent' = NoEvent
    /\ UNCHANGED <<inputVars, resultVars, requestVars, editorVars, theme, netVars,
                   ghostVars, storedTheme>>

\* a click on one of the three viewport buttons of the normal view
SetViewport(v) ==
    /\ page = "mounted"
    /\ PreviewMounted(isLoading, error, improvedCode, activeTab)
    /\ ~isFullScreen
    /\ v # viewport
    /\ viewport' = v
    /\ RenderPreview(TRUE, TRUE, improvedCode, language, theme, isFullScreen, v)
    /\ lastEvent' = NoEvent
    /\ UNCHANGED <<inputVars, resultVars, requestVars, editorVars, theme, activeTab,
                   isFullScreen, netVars, ghostVars, pageVars, copyVars>>

\* a toggle that also puts the viewport back to desktop
ToggledView_ResetsViewport(full, vp) == [isFullScreen |-> ~full, viewport |-> "desktop"]

\* setIsFullScreen(!isFullScreen): LivePreview's two state cells afterwards
ToggledView(full, vp) == [isFullScreen |-> ~full, viewport |-> vp]

\* LivePreview.toggleFullScreen
ToggleFullScreen ==
    LET view == ToggledView(isFullScreen, viewport)
    IN  /\ page = "mounted"
        /\ PreviewMounted(isLoading, error, improvedCode, activeTab)
        /\ isFullScreen' = view.isFullScreen
        /\ viewport' = view.viewport
        /\ RenderPreview(TRUE, TRUE, improvedCode, language, theme,
                         view.isFullScreen, view.viewport)
        /\ lastEvent' = NoEvent
        /\ UNCHANGED <<inputVars, resultVars, requestVars, editorVars, theme, activeTab,
                       netVars, ghostVars, pageVars, copyVars>>

(***************************************************************************)
(* The copy buttons (CodeBlock, DependenciesView).  A text with line      *)
(* breaks is the sequence of its lines and the breaks between them.       *)
(***************************************************************************)
NL == "\n"

\* a join that puts a blank between the elements
Join_BySpace(lines) ==
    [i \in 1..(IF lines = <<>> THEN 0 ELSE 2 * Len(lines) - 1) |->
        IF i % 2 = 1 THEN lines[(i + 1) \div 2] ELSE " "]

\* Array.prototype.join with the line break for a separator
Join(lines) ==
    [i \in 1..(IF lines = <<>> THEN 0 ELSE 2 * Len(lines) - 1) |->
        IF i % 2 = 1 THEN lines[(i + 1) \div 2] ELSE NL]

NoDependenciesText == "No new dependencies required."

\* what DependenciesView renders: the fixed sentence, or the block with the
\* commands and the copy button
DependenciesView(deps) ==
    IF ~Truthy(deps) \/ Len(deps.a) = 0
    THEN [shows |-> <<NoDependenciesText>>, copyButton |-> FALSE, copies |-> <<>>]
    ELSE [shows |-> Join(deps.a), copyButton |-> TRUE, copies |-> Join(deps.a)]

\* the text a click on the mounted copy button hands to clipboard.writeText
CopiedText(tab, code, deps) ==
    IF tab = "code" THEN <<code.s>> ELSE DependenciesView(deps).copies

\* handleCopy, of CodeBlock or of DependenciesView: the write, the flag, and
\* one more timer that nothing cancels
CopyClick ==
    /\ page = "mounted"
    /\ CopyViewMounted(isLoading, error, improvedCode, dependencies, activeTab)
    /\ copyTimers < MaxTimers
    /\ copied' = TRUE
    /\ copyTimers' = copyTimers + 1
    /\ lastEvent' = [op |-> "copy", view |-> activeTab,
                     text |-> CopiedText(activeTab, improvedCode, dependencies)]
    /\ UNCHANGED <<inputVars, resultVars, requestVars, editorVars, theme, activeTab,
                   previewVars, netVars, frameVars, ghostVars, pageVars>>

\* one of the outstanding timers fires: setCopied(false)
TimerFire ==
    /\ page = "mounted"
    /\ copyTimers > 0
    /\ copied' = FALSE
    /\ copyTimers' = copyTimers - 1
    /\ lastEvent' = NoEvent
    /\ UNCHANGED <<inputVars, resultVars, requestVars, editorVars, theme, activeTab,
                   previewVars, netVars, frameVars, ghostVars, pageVars>>

Next ==
    \/ \E prefersDark \in BOOLEAN, strict \in BOOLEAN : Mount(prefersDark, strict)
    \/ \E v \in TextsUpTo(MaxCodeLen) : TypeCode(v)
    \/ FocusEditor
    \/ BlurEditor
    \/ \E p \in Prompts : SetRefactorPrompt(p)
    \/ \E p \in Styles : SetStylePrompt(p)
    \/ HandleSubmit
    \/ \E i \in 1..Len(pendingCalls), settlement \in Settlements : Settle(i, settlement)
    \/ ToggleTheme
    \/ \E tab \in Tabs : SetActiveTab(tab)
    \/ \E v \in Viewports : SetViewport(v)
    \/ ToggleFullScreen
    \/ \E behaviour \in FrameBehaviours : FrameLoad(behaviour)
    \/ CopyClick
    \/ TimerFire

Spec == Init /\ [][Next]_vars

(***************************************************************************)
(* Vocabulary of the properties.                                          *)
(***************************************************************************)
\* a text with no character other than white space (the empty text too)
AllSpaces(code) == \A i \in 1..Len(code) : code[i] = " "

\* this step is a step of handleSubmit up to its await
SubmitStep == lastEvent'.op = "handleSubmit"

\* the last step was a click on the submit button
JustSubmitted == lastEvent.op = "handleSubmit"

\* the last step was the settlement of a completion call
JustSettled == lastEvent.op = "settle"

\* ... that resolved with a text for a reply
JustReplied == JustSettled /\ lastEvent.settlement.kind = "text"

\* ... that was rejected
JustRejected == JustSettled /\ lastEvent.settlement.kind = "reject"

AcceptedLanguages == {StringLit("tsx"), StringLit("html")}

\* a settlement whose text, trimmed, is one well-formed JSON object that has
\* the four fields, the language being 'tsx' or 'html'
WellFormedComplete(settlement) ==
    /\ settlement.kind = "text"
    /\ settlement.env.shape = "object"
    /\ Missing(settlement.fields) = {}
    /\ settlement.fields.language \in AcceptedLanguages

\* the four values of such a reply, as JavaScript values
SentValues(fields) ==
    [language |-> Str(fields.language.s),
     improvedCode |-> Str(fields.improvedCode.s),
     explanation |-> Str(fields.explanation.s),
     dependencies |-> Arr(fields.dependencies.items)]

\* the orchestrator holds exactly these four values
Holds(values) ==
    /\ language = values.language
    /\ improvedCode = values.improvedCode
    /\ explanation = values.explanation
    /\ dependencies = values.dependencies

(***************************************************************************)
(* C1.  As claimed: for every non-empty source code (userCode # ''), a    *)
(* submit made while no request is pending moves the orchestrator into    *)
(* Pending exactly once and starts a completion call.  handleSubmit trims *)
(* the code first, so a code of white space only is refused.              *)
(***************************************************************************)
C1_NonEmptySubmitEntersPending ==
    [][(SubmitStep /\ userCode # <<>> /\ ~isLoading)
          => (isLoading' /\ Len(pendingCalls') = Len(pendingCalls) + 1)]_vars

\* C1, amended: for every source code that holds a character other than
\* white space, a submit made while no request is pending moves the
\* orchestrator from not pending into Pending and starts exactly one
\* completion call.
C1_NonBlankSubmitEntersPending ==
    [][(SubmitStep /\ ~AllSpaces(userCode) /\ ~isLoading)
          => (isLoading' /\ Len(pendingCalls') = Len(pendingCalls) + 1)]_vars

C1_Witness ==
    /\ JustSubmitted
    /\ ~AllSpaces(userCode)
    /\ isLoading
    /\ Len(pendingCalls) = 1

(***************************************************************************)
(* C2.  Single flight: at most one completion call is outstanding at any  *)
(* time, an outstanding call means isLoading, and no click on the submit  *)
(* button is handled while isLoading is true.                             *)
(***************************************************************************)
C2_SingleFlight ==
    /\ Len(pendingCalls) <= 1
    /\ (pendingCalls # <<>>) <=> isLoading
    /\ JustSubmitted => ~lastEvent.was

\* a call is outstanding and the user has acted on the page meanwhile
C2_Witness ==
    /\ Len(pendingCalls) = 1
    /\ isLoading
    /\ lastEvent = NoEvent
    /\ cmFocused

(***************************************************************************)
(* C3.  A submit whose source code is empty (nothing but white space)     *)
(* makes no completion call and does not enter Pending: it sets the       *)
(* validation error and nothing else of the orchestrator's state.         *)
(***************************************************************************)
C3_BlankSubmitOnlySetsError ==
    [][(SubmitStep /\ AllSpaces(userCode))
          => /\ error' = Str(ValidationMessage)
             /\ isLoading' = FALSE
             /\ UNCHANGED <<inputVars, resultVars, isLoading, pendingCalls, callsMinusSubmits>>]_vars

C3_Witness ==
    /\ JustSubmitted
    /\ AllSpaces(userCode)
    /\ error = Str(ValidationMessage)
    /\ ~isLoading
    /\ pendingCalls = <<>>

(***************************************************************************)
(* C4.  Round trip: for every reply whose trimmed text is one well-formed *)
(* JSON object with language 'tsx' or 'html' and the other three fields   *)
(* present, getUIImprovementFromCode returns exactly the four values, and *)
(* after the settlement the orchestrator holds them unchanged.            *)
(***************************************************************************)
C4_RoundTrip ==
    (JustSettled /\ WellFormedComplete(lastEvent.settlement))
       => /\ getUIImprovementFromCode(ResponseOf(lastEvent.settlement))
               = [kind |-> "return", value |-> SentValues(lastEvent.settlement.fields)]
          /\ Holds(SentValues(lastEvent.settlement.fields))
          /\ error = Null
          /\ ~isLoading

\* a padded reply with a dependency line has been accepted
C4_Witness ==
    /\ JustReplied
    /\ WellFormedComplete(lastEvent.settlement)
    /\ lastEvent.settlement.env.lead > 0
    /\ lastEvent.settlement.env.trail > 0
    /\ lastEvent.settlement.fields.language = StringLit("html")
    /\ language = Str("html")
    /\ Truthy(improvedCode)
    /\ explanation # Str("")
    /\ dependencies # Arr(<<>>)
    /\ error = Null

(***************************************************************************)
(* C5.  For every reply whose language is neither 'tsx' nor 'html' (a     *)
(* missing language too) the request does not succeed: the orchestrator   *)
(* is Failed with an error, and holds no field of that reply.             *)
(***************************************************************************)
C5_InvalidLanguageNeverSucceeds ==
    (JustReplied /\ lastEvent.settlement.fields.language \notin AcceptedLanguages)
       => /\ ~isLoading
          /\ Truthy(error)
          /\ improvedCode = Str("")
          /\ explanation = Str("")
          /\ dependencies = Arr(<<>>)
          /\ language \in {Str("tsx"), Str("html")}

C5_Witness ==
    /\ JustReplied
    /\ lastEvent.settlement.env.shape = "object"
    /\ Missing(lastEvent.settlement.fields) = {}
    /\ lastEvent.settlement.fields.language = StringLit("py")
    /\ Truthy(error)
    /\ ~isLoading

(***************************************************************************)
(* C6.  As claimed: a well-formed reply whose language is outside         *)
(* {'tsx','html'} is stored in the Failed state as the 'invalid language' *)
(* error, 'AI returned an invalid language type.'.                        *)
(***************************************************************************)
C6_InvalidLanguageMessage ==
    (/\ JustReplied
     /\ lastEvent.settlement.env.shape = "object"
     /\ lastEvent.settlement.fields.language \notin AcceptedLanguages)
       => error = Str(InvalidLanguageMessage)

(***************************************************************************)
(* C7.  As claimed: for every reply whose trimmed text is not one         *)
(* well-formed JSON object, the orchestrator is Failed and its message is *)
(* the 'invalid response' message.                                        *)
(***************************************************************************)
C7_InvalidResponseMessage ==
    (JustReplied /\ lastEvent.settlement.env.shape # "object")
       => (~isLoading /\ error = Str(InvalidResponseMessage))

(***************************************************************************)
(* C8.  When the completion call itself is rejected, the orchestrator is  *)
(* Failed with exactly the message 'Failed to get UI improvement from     *)
(* code. ...'; the cause of the rejection is no part of it.               *)
(***************************************************************************)
C8_RejectionMessage ==
    JustRejected
       => /\ ~isLoading
          /\ error = Str(FailedMessage)
          /\ error # Str(lastEvent.settlement.cause)
          /\ improvedCode = Str("")

C8_Witness ==
    /\ JustRejected
    /\ lastEvent.settlement.cause = "quota exceeded"
    /\ error = Str(FailedMessage)
    /\ ~isLoading

(***************************************************************************)
(* C9.  Every accepted submit causes exactly one completion call and no   *)
(* call is issued without one: the calls issued equal the submits that    *)
(* passed the guard, and once a call has settled, failed or not, none is  *)
(* outstanding (nothing is retried).                                      *)
(***************************************************************************)
C9_OneCallPerSubmit ==
    /\ callsMinusSubmits = 0
    /\ JustSubmitted => Len(pendingCalls) = (IF AllSpaces(userCode) THEN 0 ELSE 1)
    /\ JustSettled => pendingCalls = <<>>

\* a request has failed and no call is outstanding
C9_Witness ==
    /\ JustSettled
    /\ error = Str(FailedMessage)
    /\ pendingCalls = <<>>
    /\ callsMinusSubmits = 0

(***************************************************************************)
(* C10.  As claimed: in every reachable state 'isLoading is true',        *)
(* 'error is non-null' and 'a result is held (improvedCode non-empty)'    *)
(* are pairwise mutually exclusive.                                       *)
(***************************************************************************)
C10_ExactlyOneRequestState ==
    /\ ~(isLoading /\ error # Null)
    /\ ~(isLoading /\ Truthy(improvedCode))
    /\ ~(error # Null /\ Truthy(improvedCode))

(***************************************************************************)
(* Vocabulary of the properties on the result and the preview.            *)
(***************************************************************************)
\* a result is shown: one is held, with no error and no request pending
ResultShown == Truthy(improvedCode) /\ error = Null /\ ~isLoading

\* the four fields of a value the client returned
FieldsOf(value) ==
    [language |-> Get(value, "language"),
     improvedCode |-> Get(value, "improvedCode"),
     explanation |-> Get(value, "explanation"),
     dependencies |-> Get(value, "dependencies")]

\* the state the page and the orchestrator own
hostVars == <<inputVars, resultVars, requestVars, editorVars, theme, activeTab,
              previewVars, netVars>>

\* this step is the frame's: its document, loading so far, has run
FrameStep ==
    /\ frame # NoFrame /\ frame.root = "loading"
    /\ frame' # NoFrame /\ frame'.root # "loading"

(***************************************************************************)
(* C11.  As claimed: on every entry into Pending the previous outcome is  *)
(* cleared in full: error is null and the language, the code, the         *)
(* explanation and the dependencies are all back to their initial values. *)
(* handleSubmit has no setLanguage on entry, so the language of the       *)
(* earlier reply is still held.                                           *)
(***************************************************************************)
C11_PendingEntryClearsAll ==
    (JustSubmitted /\ isLoading)
        => /\ error = Null
           /\ improvedCode = Str("")
           /\ explanation = Str("")
           /\ dependencies = Arr(<<>>)
           /\ language = Str("tsx")

(***************************************************************************)
(* C12.  Once Pending, the orchestrator stays Pending until its one       *)
(* outstanding call settles: every step taken while isLoading that is not *)
(* the settlement leaves isLoading true and the outstanding call          *)
(* untouched, and the step that clears isLoading is the settlement, which *)
(* leaves no call outstanding.                                            *)
(***************************************************************************)
C12_PendingUntilSettled ==
    [][isLoading =>
          IF lastEvent'.op = "settle"
          THEN pendingCalls' = <<>>
          ELSE isLoading' /\ pendingCalls' = pendingCalls /\ Len(pendingCalls) = 1]_vars

\* a request is pending and steps other than the submit have been taken since
C12_Witness ==
    /\ isLoading
    /\ lastEvent = NoEvent
    /\ Len(pendingCalls) = 1
    /\ ~cmFocused

(***************************************************************************)
(* C13.  As claimed: after every settlement isLoading is false, and the   *)
(* orchestrator is Succeeded with the call's result held (a result is     *)
(* shown and it is the call's) when the client returned, and Failed with  *)
(* a non-empty message when it threw; it is never back in Idle.  A reply  *)
(* the client accepts whose improvedCode is empty leaves neither a result *)
(* nor an error.                                                          *)
(***************************************************************************)
C13_SettlementOutcome ==
    JustSettled =>
        LET outcome == getUIImprovementFromCode(ResponseOf(lastEvent.settlement))
        IN  /\ ~isLoading
            /\ IF outcome.kind = "return"
               THEN ResultShown /\ Holds(FieldsOf(outcome.value))
               ELSE error # Null /\ error # Str("")

(***************************************************************************)
(* C14.  In every state in which a result is shown, the language, the     *)
(* code, the explanation and the dependencies held are the four fields of *)
(* one value: the one the client returned for the last request.           *)
(***************************************************************************)
C14_ResultFromOneReply ==
    ResultShown => (lastAccepted # NoValue /\ Holds(FieldsOf(lastAccepted)))

\* a result is shown whose language and dependencies are not the initial ones
C14_Witness ==
    /\ ResultShown
    /\ language = Str("html")
    /\ dependencies # Arr(<<>>)
    /\ lastEvent = NoEvent

(***************************************************************************)
(* C15.  The document of the preview depends on the language.  For 'html' *)
(* it loads the styling engine only and its body is the code itself, with *)
(* no script block and no existence check; for 'tsx' it loads the styling *)
(* engine, the UI runtime, its DOM binding and the transform engine, and  *)
(* the code sits in a script block of type text/babel.                    *)
(***************************************************************************)
C15_DocumentByLanguage ==
    frame # NoFrame =>
        LET doc == frame.srcDoc
        IN  /\ language \in {Str("tsx"), Str("html")}
            /\ language = Str("html") =>
                  /\ doc.scripts = <<TailwindCdn>>
                  /\ Len(doc.body) = 1
                  /\ doc.body[1].tag = "markup"
                  /\ doc.body[1].code = improvedCode
                  /\ doc.body[1].guard = ""
            /\ language = Str("tsx") =>
                  /\ doc.scripts = <<TailwindCdn, ReactCdn, ReactDomCdn, BabelCdn>>
                  /\ \E i \in 1..Len(doc.body) :
                        /\ doc.body[i].tag = "script"
                        /\ doc.body[i].type = "text/babel"
                        /\ doc.body[i].code = improvedCode

\* the preview of an 'html' result has loaded
C15_Witness ==
    /\ frame # NoFrame
    /\ language = Str("html")
    /\ frame.root = "markup"

(***************************************************************************)
(* C16.  The document of the preview is decided by the code, the language *)
(* and the theme alone: in every state in which the preview is mounted,   *)
(* whatever the viewport, the full-screen flag and the steps taken so     *)
(* far, the memoised document and the one the frame has are the document  *)
(* built from the three values held now.                                  *)
(***************************************************************************)
C16_DocumentDeterministic ==
    frame # NoFrame =>
        /\ iframeContent # NoMemo
        /\ iframeContent.value = IframeDocument(improvedCode, language, theme)
        /\ frame.srcDoc = iframeContent.value

\* the preview is mounted in full screen, the viewport having been changed
C16_Witness ==
    /\ frame # NoFrame
    /\ isFullScreen
    /\ viewport = "mobile"
    /\ frame.root # "loading"

(***************************************************************************)
(* C17.  The prompt composer is deterministic: a submit made with the     *)
(* three inputs an earlier submit had composes the bundle that submit     *)
(* composed, whatever the orchestrator has come to hold in between.       *)
(***************************************************************************)
C17_ComposerDeterministic ==
    [][(SubmitStep /\ isLoading' /\ lastComposed # NoBundle)
          => lastComposed' = lastComposed]_vars

\* a request has been sent again, with the inputs unchanged, after a reply
\* that changed the language held
C17_Witness ==
    /\ JustSubmitted
    /\ lastEvent.again
    /\ isLoading
    /\ language = Str("html")

(***************************************************************************)
(* C18.  The bundle sent holds the source code as it is between two       *)
(* fences, and for the refactor request and for the target style the      *)
(* fixed placeholder sentence when the field is empty and the user's text *)
(* when it is not.                                                        *)
(***************************************************************************)
C18_BundleContents ==
    \A i \in 1..Len(pendingCalls) :
        LET c == pendingCalls[i].contents
        IN  /\ c[3] = Fence /\ c[4] = userCode /\ c[5] = Fence
            /\ c[7] = "**User's Refactor Request:**"
            /\ c[8] = IF refactorPrompt = "" THEN NoRequestPlaceholder ELSE refactorPrompt
            /\ c[9] = "**User's Target Style:**"
            /\ c[10] = IF stylePrompt = "" THEN NoStylePlaceholder ELSE stylePrompt

\* a request is pending with no refactor request and a target style
C18_Witness ==
    /\ pendingCalls # <<>>
    /\ refactorPrompt = ""
    /\ stylePrompt # ""
    /\ Len(userCode) > 1

(***************************************************************************)
(* C19.  Errors inside the frame never reach the host: the step in which  *)
(* the frame runs its document, the one in which its script finds no      *)
(* RefactoredComponent or catches an error of the code included, changes  *)
(* no variable of the host; the orchestrator is Succeeded before and      *)
(* after, with error null and the same result.                            *)
(***************************************************************************)
C19_FrameErrorsStayInFrame ==
    [][FrameStep => (UNCHANGED hostVars /\ ResultShown /\ ResultShown')]_vars

\* the frame shows the script error, the orchestrator still holds its result
C19_Witness ==
    /\ frame # NoFrame
    /\ frame.root = ScriptErrorText
    /\ ResultShown

(***************************************************************************)
(* C20.  In every state in which the preview is displayed, in the normal  *)
(* view and in the full-screen overlay alike, there is a frame, it has    *)
(* the document built, and the capabilities it grants are exactly         *)
(* allow-scripts.                                                         *)
(***************************************************************************)
C20_SandboxAllowsScriptsOnly ==
    /\ (page = "mounted" /\ PreviewMounted(isLoading, error, improvedCode, activeTab))
          <=> frame # NoFrame
    /\ frame # NoFrame =>
          /\ frame.sandbox = {"allow-scripts"}
          /\ "allow-same-origin" \notin frame.sandbox
          /\ "allow-top-navigation" \notin frame.sandbox
          /\ frame.srcDoc = iframeContent.value

\* the preview is displayed in the full-screen overlay and has run its code
C20_Witness ==
    /\ frame # NoFrame
    /\ isFullScreen
    /\ frame.root = "component"

(***************************************************************************)
(* C21.  While the Dependencies view shows a list, its text is the        *)
(* dependency lines of the held result in their order, one per line (a    *)
(* line break between two lines, a single line as it is), and a click on  *)
(* its copy button hands exactly that text to the clipboard.              *)
(***************************************************************************)
C21_DependenciesShownAndCopied ==
    (/\ page = "mounted"
     /\ TabBarShown(isLoading, error, improvedCode)
     /\ activeTab = "dependencies"
     /\ Truthy(dependencies)
     /\ dependencies.a # <<>>)
       => LET lines == dependencies.a
              view == DependenciesView(dependencies)
          IN  /\ view.copyButton
              /\ Len(view.shows) = 2 * Len(lines) - 1
              /\ \A i \in 1..Len(lines) : view.shows[2 * i - 1] = lines[i]
              /\ \A i \in 1..(Len(lines) - 1) : view.shows[2 * i] = NL
              /\ Len(lines) = 1 => view.shows = lines
              /\ lastEvent.op = "copy" => lastEvent.text = view.shows

\* a list of two commands has been copied from the Dependencies view
C21_Witness ==
    /\ lastEvent.op = "copy"
    /\ lastEvent.view = "dependencies"
    /\ dependencies = Arr(<<DepCatalogue[1], DepCatalogue[2]>>)
    /\ lastEvent.text = <<DepCatalogue[1], NL, DepCatalogue[2]>>

(***************************************************************************)
(* C22.  Once the page is mounted, the theme is the stored preference     *)
(* when there was one, and the OS preference otherwise; a stored 'light'  *)
(* is still stored.                                                       *)
(***************************************************************************)
C22_ThemeFromPreference ==
    lastEvent.op = "mount"
       => /\ theme = IF lastEvent.stored # NoStored THEN lastEvent.stored
                     ELSE IF lastEvent.prefersDark THEN "dark" ELSE "light"
          /\ lastEvent.stored = "light" => storedTheme = "light"

(***************************************************************************)
(* C23.  The viewport is one of desktop (full width), tablet (768px) and  *)
(* mobile (375px), and a step that turns the full-screen overlay on or    *)
(* off, the preview staying displayed, leaves the viewport as it was.     *)
(***************************************************************************)
C23_FullScreenKeepsViewport ==
    [][/\ viewport' \in {"desktop", "tablet", "mobile"}
       /\ viewportClasses[viewport'] =
             (CASE viewport' = "desktop" -> "w-full"
                [] viewport' = "tablet" -> "w-[768px]"
                [] viewport' = "mobile" -> "w-[375px]")
       /\ (/\ PreviewMounted(isLoading, error, improvedCode, activeTab)
           /\ PreviewMounted(isLoading', error', improvedCode', activeTab')
           /\ isFullScreen' # isFullScreen)
             => viewport' = viewport]_vars

\* the overlay is on with the mobile viewport selected
C23_Witness ==
    /\ page = "mounted"
    /\ PreviewMounted(isLoading, error, improvedCode, activeTab)
    /\ isFullScreen
    /\ viewport = "mobile"

(***************************************************************************)
(* C24.  A component-language frame whose script block has run shows the  *)
(* component when the code defined RefactoredComponent, the fixed         *)
(* not-found text when it did not, and the script-error text when the     *)
(* code threw while it was evaluated; the host's error stays null and     *)
(* the result stays displayed.                                            *)
(***************************************************************************)
C24_FrameScriptOutcome ==
    (/\ frame # NoFrame
     /\ Len(frame.srcDoc.body) = 2
     /\ frame.ran \in {"defines", "omits", "throws"})
       => /\ frame.ran = "defines" => frame.root = "component"
          /\ frame.ran = "omits" =>
                frame.root = "Error: RefactoredComponent function not found in the generated code."
          /\ frame.ran = "throws" => frame.root = "Script Error:"
          /\ error = Null
          /\ page = "mounted"
          /\ PreviewMounted(isLoading, error, improvedCode, activeTab)

\* the frame shows the not-found text
C24_Witness ==
    /\ frame # NoFrame
    /\ language = Str("tsx")
    /\ frame.ran = "omits"
    /\ frame.root = NotFoundText

(***************************************************************************)
(* C25.  A step that is neither handleSubmit nor the settlement of its    *)
(* call leaves isLoading, error, language, improvedCode, explanation and  *)
(* dependencies unchanged.                                                *)
(***************************************************************************)
C25_RequestStateOwnedByOrchestrator ==
    [][lastEvent'.op \notin {"handleSubmit", "settle"}
          => UNCHANGED <<isLoading, error, language, improvedCode, explanation,
                         dependencies>>]_vars

\* the held code has been copied, with a dependency list held
C25_Witness ==
    /\ lastEvent.op = "copy"
    /\ lastEvent.view = "code"
    /\ Truthy(improvedCode)
    /\ Truthy(dependencies)
    /\ dependencies.a # <<>>
    /\ theme = "light"

C27_IndicatorUntilLastTimer == copied <=> copyTimers > 0

\* the client has just returned a value for the settled call
JustAccepted ==
    /\ JustReplied
    /\ getUIImprovementFromCode(ResponseOf(lastEvent.settlement)).kind = "return"

(***************************************************************************)
(* C28.  After the settlement of a call for which the client returned a   *)
(* value, the output panel shows the tab bar and the result.              *)
(***************************************************************************)
C28_SuccessShowsResult ==
    JustAccepted => (page = "mounted" /\ TabBarShown(isLoading, error, improvedCode))

(***************************************************************************)
(* C29.  In every state dependencies is an array and improvedCode and     *)
(* explanation are strings, and no render has thrown.                     *)
(***************************************************************************)
C29_HeldResultTypes ==
    /\ dependencies.ty = "array"
    /\ improvedCode.ty = "string"
    /\ explanation.ty = "string"
    /\ page # "crashed"

(***************************************************************************)
(* C30.  After the settlement of a call for which the client returned a   *)
(* value, the active tab is Preview.                                      *)
(***************************************************************************)
C30_PreviewAfterSuccess == JustAccepted => activeTab = "preview"

====
